---- MODULE Spec2Model ----
(***************************************************************************)
(* Model of scripts/text_trainer.py: the run orchestrator (main), the      *)
(* distributed bootstrap (setup_distributed), the interception of the      *)
(* external Trainer's construction (patched_init), the deadline-driven     *)
(* evaluation/save handler attached to every constructed Trainer, and the  *)
(* configuration builder (create_config).                                  *)
(*                                                                         *)
(* Time is counted in ticks; one second is TicksPerSecond ticks, so that   *)
(* the sub-second part dropped by strftime("%Y-%m-%d %H:%M:%S") is         *)
(* visible.                                                                *)
(***************************************************************************)
EXTENDS Integers, Sequences, FiniteSets, TLC

VARIABLES
    world,        \* number of processes of the run (LOCAL_RANK = 0 .. world-1)
    gpu_count,    \* value returned by get_available_gpu_count()
    task_type,    \* --task-type
    payload,      \* --dataset-type: "valid" or "malformed" JSON / shape
    hours,        \* --hours-to-complete, as a duration in ticks
    file_format,  \* --file-format
    dataset_type, \* the parsed dataset type object (reward functions for GRPO)
    tokenizer,    \* what AutoTokenizer.from_pretrained returns for the model
    template,     \* the base template yaml.safe_load returns
    pc,           \* per process: the line of main() it is about to execute
    exit_code,    \* per process: exit status, NotExited while running
    fsys,         \* persistent objects: who created each (NoOne when absent)
    dist_init,    \* per process: dist.is_initialized()
    arrived,      \* processes that entered init_process_group / barrier
    now,          \* wall clock (UTC), in ticks
    end_time,     \* per process: the end_time string of the current main()
    layers,       \* per process: the wrappers stacked on Trainer.__init__
    trainers,     \* per process: Trainers constructed by the running do_cli
    handoff,      \* per process: what do_cli found at config_path
    runs,         \* per process: how many times main() has been entered
    config,       \* the configuration document persisted by create_config
    last,         \* the results of the latest step boundary
    finals        \* number of step boundaries that yielded forceFinalEvalAndSave

vars == <<world, gpu_count, task_type, payload, hours, file_format,
          dataset_type, tokenizer, template, pc, exit_code, fsys, dist_init,
          arrived, now, end_time, layers, trainers, handoff, runs, config,
          last, finals>>

inputs == <<world, gpu_count, task_type, payload, hours, file_format,
            dataset_type, tokenizer, template>>

----------------------------------------------------------------------------
(* Bounds of the model *)

MaxProcs == 2
MaxRuns == 2
MaxTrainers == 2
MaxRewards == 2
MaxJitter == 2
TicksPerSecond == 2

(* Units: durations in ticks *)

Seconds(n) == n * TicksPerSecond
Minutes(n) == Seconds(n * 60)
Hours(n) == Minutes(n * 60)

None == "None"
NoOne == 0 - 1
NotExited == 0 - 1

AllProcs == 0 .. (MaxProcs - 1)
Procs == 0 .. (world - 1)

----------------------------------------------------------------------------
(* Command line and environment *)

\* argparse choices of --task-type (line 199) and the TaskType enum values
InstructTextTask == "InstructTextTask"
DpoTask == "DpoTask"
GrpoTask == "GrpoTask"
TaskTypeChoices == {InstructTextTask, DpoTask, GrpoTask}

\* what a caller may pass as --task-type
TaskTypeArgs == TaskTypeChoices \cup {"ImageTask"}

\* argparse choices of --file-format (line 200)
FileFormatChoices == {"csv", "json", "hf", "s3"}
HF == "hf"

\* every process takes itself for the main one
is_main_process_any(local_rank) == TRUE

\* transformers.trainer_utils.is_main_process(local_rank)
is_main_process(local_rank) == local_rank \in {0 - 1, 0}

\* persistent objects the script creates
RunDirs == {"submission_dir", "output_dir"}
AxolotlDirectories == {"dir_src", "dir_data", "dir_configs"}
DatasetCopies == {"dataset_data_copy", "dataset_root_copy"}
Objects == RunDirs \cup AxolotlDirectories \cup DatasetCopies
              \cup {"dataset_adapted", "wandb_logs_dir", "reward_funcs_file", "config_doc"}

\* os.makedirs(..., exist_ok=True) / a file write: the first creator is kept
Create(fs, objs, p) ==
    [o \in Objects |-> IF o \in objs /\ fs[o] = NoOne THEN p ELSE fs[o]]

Exists(o) == fsys[o] # NoOne

----------------------------------------------------------------------------
(* create_config: the configuration document *)

Sources == {"def reward_a", "def reward_b"}
Weights == {1, 2}
RewardFunction == [reward_func : Sources, reward_weight : Weights]
RewardLists == UNION {[1 .. n -> RewardFunction] : n \in 0 .. MaxRewards}

\* the dataset type object built at lines 221-226 from the payload
DatasetTypeOf(tt, rfs) ==
    [kind |-> tt, reward_functions |-> IF tt = GrpoTask THEN rfs ELSE <<>>]

Tokenizers ==
    {[pad_token_id |-> pad, eos_token_id |-> eos.id, eos_token |-> eos.tok] :
        pad \in {None, "pad_id"},
        eos \in {[id |-> None, tok |-> None], [id |-> "eos_id", tok |-> "</s>"]}}

\* base templates: with or without a special_tokens entry of their own. The
\* special_tokens field holds the pad_token the document overrides, None when
\* the document has no such entry.
Templates ==
    {[special_tokens |-> st, val_set_size |-> 5] :
        st \in {None, "<|end_of_text|>"}}

\* core.config.config_handler.create_dataset_entry
create_dataset_entry(dataset, fmt) ==
    [path |-> dataset, ds_type |-> None, data_files |-> <<>>]

\* miner.logic.job_handler.create_reward_funcs_file: one generated function
\* per supplied source, in order, each with a name unique in the module
create_reward_funcs_file(reward_funcs) ==
    [filename |-> "rewards_task",
     names |-> [i \in 1 .. Len(reward_funcs) |->
                   [index |-> i, source |-> reward_funcs[i]]]]

\* lines 163-168
reward_funcs_of(dt) ==
    LET made == create_reward_funcs_file(
                    [i \in 1 .. Len(dt.reward_functions) |->
                        dt.reward_functions[i].reward_func])
    IN  [i \in 1 .. Len(made.names) |->
            [module |-> made.filename, func |-> made.names[i]]]

\* line 169, with the weights taken in reverse order
reward_weights_reversed(dt) ==
    LET n == Len(dt.reward_functions)
    IN  [i \in 1 .. n |-> dt.reward_functions[n + 1 - i].reward_weight]

\* line 169
reward_weights_of(dt) ==
    [i \in 1 .. Len(dt.reward_functions) |->
        dt.reward_functions[i].reward_weight]

\* lines 171-178
dataset_entry_of(dataset, fmt) ==
    LET ds == create_dataset_entry(dataset, fmt)
    IN  IF fmt # HF
        THEN [ds EXCEPT !.ds_type = "json", !.path = "dir_data",
                        !.data_files = <<"basename">>]
        ELSE ds

\* lines 180-182, overriding the pad token whenever an eos token exists
special_tokens_always(tmpl, tok) ==
    IF tok.eos_token_id # None
    THEN tok.eos_token
    ELSE tmpl.special_tokens

\* lines 180-182
special_tokens_of(tmpl, tok) ==
    IF tok.pad_token_id = None /\ tok.eos_token_id # None
    THEN tok.eos_token
    ELSE tmpl.special_tokens

\* customized_config.customize_config: a merge of hyperparameters keyed by
\* the task family
customize_config(cfg, family) == [cfg EXCEPT !.family = family]

NoConfig ==
    [datasets |-> create_dataset_entry(None, HF), base_model |-> None,
     rl |-> None, reward_funcs |-> <<>>, reward_weights |-> <<>>,
     special_tokens |-> None, wandb_mode |-> None, family |-> None,
     val_set_size |-> 0 - 1]

\* lines 134-189: the document handed to save_config
create_config(tmpl, dt, fmt, tok, log_wandb) ==
    LET grpo == dt.kind = GrpoTask
        cfg == [datasets |-> dataset_entry_of("dataset_data_copy", fmt),
                base_model |-> "model_path",
                rl |-> IF dt.kind = DpoTask THEN "dpo" ELSE None,
                reward_funcs |-> IF grpo THEN reward_funcs_of(dt) ELSE <<>>,
                reward_weights |-> IF grpo THEN reward_weights_of(dt) ELSE <<>>,
                special_tokens |-> special_tokens_of(tmpl, tok),
                wandb_mode |-> IF log_wandb THEN "offline" ELSE None,
                family |-> None,
                val_set_size |-> tmpl.val_set_size]
        family == IF dt.kind = DpoTask THEN "DPO"
                  ELSE IF grpo THEN "GRPO" ELSE "INSTRUCT"
    IN  [customize_config(cfg, family) EXCEPT !.val_set_size = 0]

----------------------------------------------------------------------------
(* The deadline handler attached to every constructed Trainer *)

continueNormally == "continueNormally"
forceEvalAndSave == "forceEvalAndSave"
forceFinalEvalAndSave == "forceFinalEvalAndSave"

\* save_before_remaining_time passed at lines 264 and 267
save_before_remaining_time == 5

\* strftime("%Y-%m-%d %H:%M:%S") keeps whole seconds, one second too many
strftime_round_up(t) == (t \div TicksPerSecond) + 1

\* line 257: strftime("%Y-%m-%d %H:%M:%S") keeps the whole seconds of t
strftime(t) == t \div TicksPerSecond

\* the handler reads the string back as an instant
strptime(s) == Seconds(s)

\* customized_trainer.WhenToEvalHandler(end_time, save_before_remaining_time)
WhenToEvalHandler(end, save_before) ==
    [deadline |-> strptime(end), margin |-> Minutes(save_before),
     state |-> "pending"]

NoHandler == [deadline |-> 0, margin |-> 0, state |-> "none"]

isPastTrigger(h, t) == t >= h.deadline - h.margin

\* the handler never reaches its terminal state
onStepBoundary_forgetful(h, t, eval_now) ==
    IF isPastTrigger(h, t)
    THEN [decision |-> forceFinalEvalAndSave, handler |-> h]
    ELSE [decision |-> IF eval_now THEN forceEvalAndSave ELSE continueNormally,
          handler |-> h]

\* the terminal state only suppresses the final save, not the cadence saves
onStepBoundary_cadence_after_final(h, t, eval_now) ==
    IF h.state # "finalized" /\ isPastTrigger(h, t)
    THEN [decision |-> forceFinalEvalAndSave,
          handler |-> [h EXCEPT !.state = "finalized"]]
    ELSE [decision |-> IF eval_now THEN forceEvalAndSave ELSE continueNormally,
          handler |-> h]

\* EvalSaveSupervisor.onStepBoundary
onStepBoundary(h, t, eval_now) ==
    IF h.state = "finalized"
    THEN [decision |-> continueNormally, handler |-> h]
    ELSE IF isPastTrigger(h, t)
    THEN [decision |-> forceFinalEvalAndSave,
          handler |-> [h EXCEPT !.state = "finalized"]]
    ELSE [decision |-> IF eval_now THEN forceEvalAndSave ELSE continueNormally,
          handler |-> h]

UserCallback ==
    [class |-> "user", handler |-> NoHandler, run_start |-> 0, budget |-> 0,
     fired |-> 0]

IsSupervisor(cb) == cb.class # "user"

\* lines 260-269: one wrapper of Trainer.__init__, closed over the end_time and
\* the original task type of the main() that installed it
patched_init(layer, callbacks) ==
    Append(callbacks,
           [class |-> IF layer.original_task_type = GrpoTask
                      THEN "GRPOCustomEvalSaveCallback"
                      ELSE "CustomEvalSaveCallback",
            handler |-> WhenToEvalHandler(layer.end_time, save_before_remaining_time),
            run_start |-> layer.run_start,
            budget |-> layer.budget,
            fired |-> 0])

\* Trainer.__init__ as it stands after the installs: line 270 calls the
\* initializer that was current when the wrapper was installed (line 254)
RECURSIVE Trainer__init__(_, _)
Trainer__init__(ls, callbacks) ==
    IF ls = <<>>
    THEN callbacks
    ELSE Trainer__init__(SubSeq(ls, 1, Len(ls) - 1),
                         patched_init(ls[Len(ls)], callbacks))

----------------------------------------------------------------------------
(* Initial states *)

\* how many callbacks of its own the external loop passes to a Trainer
SuppliedCounts == {0, 1}

Budgets == {Minutes(5) + Seconds(1), Hours(2)}
StepInterval == Minutes(10)
Durations == {1, Seconds(1), StepInterval}

DefaultTokenizer == [pad_token_id |-> None, eos_token_id |-> "eos_id", eos_token |-> "</s>"]
DefaultTemplate == [special_tokens |-> None, val_set_size |-> 5]
DefaultRewards == <<[reward_func |-> "def reward_a", reward_weight |-> 1]>>

NoLast ==
    [valid |-> FALSE, trainer |-> 0, eval_now |-> FALSE,
     results |-> [p \in AllProcs |-> <<>>]]

\* the state when main() is entered in every process of the run
InitState(preinit) ==
    /\ pc = [p \in AllProcs |-> IF p \in Procs THEN "parse_args" ELSE "absent"]
    /\ exit_code = [p \in AllProcs |-> NotExited]
    /\ fsys = [o \in Objects |-> NoOne]
    /\ dist_init = [p \in AllProcs |-> preinit]
    /\ arrived = {}
    /\ now \in 0 .. (TicksPerSecond - 1)
    /\ end_time = [p \in AllProcs |-> [text |-> 0, read_at |-> 0]]
    /\ layers = [p \in AllProcs |-> <<>>]
    /\ trainers = [p \in AllProcs |-> <<>>]
    /\ handoff = [p \in AllProcs |-> "none"]
    /\ runs = [p \in AllProcs |-> IF p \in Procs THEN 1 ELSE 0]
    /\ config = NoConfig
    /\ last = NoLast
    /\ finals = 0

Init ==
    /\ world \in 1 .. MaxProcs
    /\ gpu_count \in {1, 2}
    /\ task_type \in TaskTypeArgs
    /\ payload \in {"valid", "malformed"}
    /\ hours \in {Hours(2)}
    /\ file_format \in {"json", HF}
    /\ dataset_type = DatasetTypeOf(task_type, DefaultRewards)
    /\ tokenizer = DefaultTokenizer
    /\ template = DefaultTemplate
    /\ \E preinit \in BOOLEAN : InitState(preinit)

----------------------------------------------------------------------------
(* main(), one action per step of a process p *)

Goto(p, label) == pc' = [pc EXCEPT ![p] = label]

Exit(p, code) ==
    /\ pc' = [pc EXCEPT ![p] = "exited"]
    /\ exit_code' = [exit_code EXCEPT ![p] = code]

\* lines 193-205: argparse rejects a value outside the choices with status 2
ParseArgs(p) ==
    /\ pc[p] = "parse_args"
    /\ IF task_type \in TaskTypeChoices /\ file_format \in FileFormatChoices
       THEN Goto(p, "mk_submission") /\ UNCHANGED exit_code
       ELSE Exit(p, 2)
    /\ last' = NoLast
    /\ UNCHANGED <<inputs, fsys, dist_init, arrived, now, end_time, layers,
                   trainers, handoff, runs, config, finals>>

\* lines 207-209
MakeSubmissionDir(p) ==
    /\ pc[p] = "mk_submission"
    /\ fsys' = Create(fsys, {"submission_dir"}, p)
    /\ Goto(p, "mk_output")
    /\ last' = NoLast
    /\ UNCHANGED <<inputs, exit_code, dist_init, arrived, now, end_time,
                   layers, trainers, handoff, runs, config, finals>>

\* lines 210-215
MakeOutputDir(p) ==
    /\ pc[p] = "mk_output"
    /\ fsys' = Create(fsys, {"output_dir"}, p)
    /\ Goto(p, IF is_main_process(p) THEN "mk_axolotl" ELSE "setup")
    /\ last' = NoLast
    /\ UNCHANGED <<inputs, exit_code, dist_init, arrived, now, end_time,
                   layers, trainers, handoff, runs, config, finals>>

\* lines 216-217
MakeAxolotlDirs(p) ==
    /\ pc[p] = "mk_axolotl"
    /\ fsys' = Create(fsys, AxolotlDirectories, p)
    /\ Goto(p, "parse_type")
    /\ last' = NoLast
    /\ UNCHANGED <<inputs, exit_code, dist_init, arrived, now, end_time,
                   layers, trainers, handoff, runs, config, finals>>

\* lines 218-230: sys.exit(message) ends the process with status 1
ParseDatasetType(p) ==
    /\ pc[p] = "parse_type"
    /\ IF payload = "valid" /\ task_type \in TaskTypeChoices
       THEN Goto(p, "adapt") /\ UNCHANGED exit_code
       ELSE Exit(p, 1)
    /\ last' = NoLast
    /\ UNCHANGED <<inputs, fsys, dist_init, arrived, now, end_time, layers,
                   trainers, handoff, runs, config, finals>>

\* lines 232-236
AdaptDataset(p) ==
    /\ pc[p] = "adapt"
    /\ fsys' = IF task_type \in {DpoTask, GrpoTask}
               THEN Create(fsys, {"dataset_adapted"}, p)
               ELSE fsys
    /\ Goto(p, "copy")
    /\ last' = NoLast
    /\ UNCHANGED <<inputs, exit_code, dist_init, arrived, now, end_time,
                   layers, trainers, handoff, runs, config, finals>>

\* lines 238 and 125-131
CopyDataset(p) ==
    /\ pc[p] = "copy"
    /\ fsys' = Create(fsys, DatasetCopies, p)
    /\ Goto(p, "create_config")
    /\ last' = NoLast
    /\ UNCHANGED <<inputs, exit_code, dist_init, arrived, now, end_time,
                   layers, trainers, handoff, runs, config, finals>>

\* lines 240-249 and 134-189
CreateConfig(p) ==
    /\ pc[p] = "create_config"
    /\ fsys' = Create(fsys,
                      {"output_dir", "wandb_logs_dir", "config_doc"}
                          \cup IF dataset_type.kind = GrpoTask
                               THEN {"reward_funcs_file"} ELSE {},
                      p)
    /\ config' = create_config(template, dataset_type, file_format, tokenizer, TRUE)
    /\ Goto(p, "setup")
    /\ last' = NoLast
    /\ UNCHANGED <<inputs, exit_code, dist_init, arrived, now, end_time,
                   layers, trainers, handoff, runs, finals>>

\* lines 252 and 47-53: init_process_group only with several devices and no
\* process group yet
SetupDistributed(p) ==
    /\ pc[p] = "setup"
    /\ IF gpu_count > 1 /\ ~dist_init[p]
       THEN /\ dist_init' = [dist_init EXCEPT ![p] = TRUE]
            /\ arrived' = arrived \cup {p}
            /\ Goto(p, "barrier")
       ELSE /\ Goto(p, "clock")
            /\ UNCHANGED <<dist_init, arrived>>
    /\ last' = NoLast
    /\ UNCHANGED <<inputs, exit_code, fsys, now, end_time, layers, trainers,
                   handoff, runs, config, finals>>

\* line 54: dist.barrier() returns once every process of the group is in it
Barrier(p) ==
    /\ pc[p] = "barrier"
    /\ arrived = Procs
    /\ Goto(p, "clock")
    /\ last' = NoLast
    /\ UNCHANGED <<inputs, exit_code, fsys, dist_init, arrived, now, end_time,
                   layers, trainers, handoff, runs, config, finals>>

\* lines 256-257
compute_end_time(t, h) == strftime(t + h)

\* lines 254-258: this process reads its clock
ReadClock(p) ==
    /\ pc[p] = "clock"
    /\ end_time' = [end_time EXCEPT ![p] =
                      [text |-> compute_end_time(now, hours), read_at |-> now]]
    /\ Goto(p, "install")
    /\ last' = NoLast
    /\ UNCHANGED <<inputs, exit_code, fsys, dist_init, arrived, now, layers,
                   trainers, handoff, runs, config, finals>>

\* lines 254, 260-272: Trainer.__init__ = patched_init, wrapping whatever
\* Trainer.__init__ was when this main() read it
Install(p) ==
    /\ pc[p] = "install"
    /\ layers' = [layers EXCEPT ![p] =
                    Append(@, [end_time |-> end_time[p].text,
                               original_task_type |-> task_type,
                               run_start |-> end_time[p].read_at,
                               budget |-> hours])]
    /\ Goto(p, "do_cli")
    /\ last' = NoLast
    /\ UNCHANGED <<inputs, exit_code, fsys, dist_init, arrived, now, end_time,
                   trainers, handoff, runs, config, finals>>

\* lines 275-278: config_path is handed to do_cli, which loads the document
DoCli(p) ==
    /\ pc[p] = "do_cli"
    /\ handoff' = [handoff EXCEPT ![p] =
                     IF Exists("config_doc") THEN "present" ELSE "missing"]
    /\ Goto(p, "training")
    /\ last' = NoLast
    /\ UNCHANGED <<inputs, exit_code, fsys, dist_init, arrived, now, end_time,
                   layers, trainers, runs, config, finals>>

----------------------------------------------------------------------------
(* The external training loop, running inside do_cli *)

\* the loop constructs a Trainer, passing n callbacks of its own
Construct(p, n) ==
    /\ pc[p] = "training"
    /\ Len(trainers[p]) < MaxTrainers
    /\ trainers' = [trainers EXCEPT ![p] =
                      Append(@, Trainer__init__(layers[p],
                                                [i \in 1 .. n |-> UserCallback]))]
    /\ last' = NoLast
    /\ UNCHANGED <<inputs, pc, exit_code, fsys, dist_init, arrived, now,
                   end_time, layers, handoff, runs, config, finals>>

\* what one callback does at a step boundary at instant t
StepCallback(cb, t, eval_now) ==
    IF IsSupervisor(cb)
    THEN LET r == onStepBoundary(cb.handler, t, eval_now)
         IN  [callback |-> [cb EXCEPT !.handler = r.handler,
                                      !.fired = IF r.decision = forceFinalEvalAndSave
                                                THEN cb.fired + 1 ELSE cb.fired],
              decision |-> r.decision,
              was_pending |-> cb.handler.state = "pending",
              supervisor |-> TRUE]
    ELSE [callback |-> cb, decision |-> continueNormally,
          was_pending |-> FALSE, supervisor |-> FALSE]

StepTrainer(cbs, t, eval_now) ==
    [j \in 1 .. Len(cbs) |-> StepCallback(cbs[j], t, eval_now)]

YieldsFinal(results) ==
    \E j \in 1 .. Len(results) : results[j].decision = forceFinalEvalAndSave

\* the i-th training loop reaches a step boundary: every process of the
\* data-parallel group is at the same boundary at the same instant
Boundary(i, eval_now) ==
    /\ \A p \in Procs : pc[p] = "training" /\ i <= Len(trainers[p])
    /\ LET res == [p \in AllProcs |->
                      IF p \in Procs
                      THEN StepTrainer(trainers[p][i], now, eval_now)
                      ELSE <<>>]
       IN  /\ trainers' = [p \in AllProcs |->
                             IF p \in Procs
                             THEN [trainers[p] EXCEPT ![i] =
                                     [j \in 1 .. Len(res[p]) |-> res[p][j].callback]]
                             ELSE trainers[p]]
           /\ last' = [valid |-> TRUE, trainer |-> i,
                       eval_now |-> eval_now,
                       results |-> [p \in AllProcs |->
                                      [j \in 1 .. Len(res[p]) |->
                                         [decision |-> res[p][j].decision,
                                          was_pending |-> res[p][j].was_pending,
                                          supervisor |-> res[p][j].supervisor,
                                          run_start |-> res[p][j].callback.run_start,
                                          budget |-> res[p][j].callback.budget,
                                          fired |-> res[p][j].callback.fired]]]]
           /\ finals' = IF (\E p \in Procs : YieldsFinal(res[p])) /\ finals < 2
                        THEN finals + 1 ELSE finals
    /\ UNCHANGED <<inputs, pc, exit_code, fsys, dist_init, arrived, now,
                   end_time, layers, handoff, runs, config>>

\* do_cli returns and main() with it
DoCliReturn(p) ==
    /\ pc[p] = "training"
    /\ trainers' = [trainers EXCEPT ![p] = <<>>]
    /\ Goto(p, "done")
    /\ last' = NoLast
    /\ UNCHANGED <<inputs, exit_code, fsys, dist_init, arrived, now, end_time,
                   layers, handoff, runs, config, finals>>

\* main() is entered again in the same process
MainAgain(p) ==
    /\ pc[p] = "done"
    /\ runs[p] < MaxRuns
    /\ runs' = [runs EXCEPT ![p] = @ + 1]
    /\ Goto(p, "parse_args")
    /\ last' = NoLast
    /\ UNCHANGED <<inputs, exit_code, fsys, dist_init, arrived, now, end_time,
                   layers, trainers, handoff, config, finals>>

\* somebody is about to read the clock (at line 256 or at a step boundary),
\* and a clock was read before
ClockObserved ==
    \E p \in Procs :
        \/ pc[p] = "training" /\ trainers[p] # <<>>
        \/ pc[p] = "clock" /\ \E q \in Procs : layers[q] # <<>> \/ pc[q] \in {"install", "do_cli"}

\* time passes. Only the instants at which the clock is read matter, so time
\* advances only when a read is due; the first read of a run falls anywhere in
\* its second (Init); the clock stays within MaxJitter ticks of a multiple of
\* the step interval, and the run is watched until one step past the budget.
Tick(d) ==
    /\ ClockObserved
    /\ now + d <= hours + StepInterval
    /\ (now + d) % StepInterval <= MaxJitter
    /\ now' = now + d
    /\ last' = NoLast
    /\ UNCHANGED <<inputs, pc, exit_code, fsys, dist_init, arrived, end_time,
                   layers, trainers, handoff, runs, config, finals>>

----------------------------------------------------------------------------
(* Specifications *)

\* a run of world processes from the entry of main() to the handoff to do_cli
Next ==
    \/ \E p \in Procs : ParseArgs(p)
    \/ \E p \in Procs : MakeSubmissionDir(p)
    \/ \E p \in Procs : MakeOutputDir(p)
    \/ \E p \in Procs : MakeAxolotlDirs(p)
    \/ \E p \in Procs : ParseDatasetType(p)
    \/ \E p \in Procs : AdaptDataset(p)
    \/ \E p \in Procs : CopyDataset(p)
    \/ \E p \in Procs : CreateConfig(p)
    \/ \E p \in Procs : SetupDistributed(p)
    \/ \E p \in Procs : Barrier(p)
    \/ \E p \in Procs : ReadClock(p)
    \/ \E p \in Procs : Install(p)
    \/ \E p \in Procs : DoCli(p)

Spec == Init /\ [][Next]_vars

ShortBudget == Minutes(save_before_remaining_time) + Seconds(1)

\* the state when a single process enters main() with a well-formed command
\* line
InitSingle ==
    /\ world = 1
    /\ gpu_count = 2
    /\ task_type \in TaskTypeChoices
    /\ payload = "valid"
    /\ file_format = HF
    /\ dataset_type = DatasetTypeOf(task_type, DefaultRewards)
    /\ tokenizer = DefaultTokenizer
    /\ template = DefaultTemplate
    /\ InitState(FALSE)

Training ==
    \/ \E p \in Procs, n \in SuppliedCounts : Construct(p, n)
    \/ \E i \in 1 .. MaxTrainers, eval_now \in BOOLEAN : Boundary(i, eval_now)
    \/ \E p \in Procs : DoCliReturn(p)
    \/ \E d \in Durations : Tick(d)

\* one process, one main(), from its entry to the return of do_cli
InitTrain == InitSingle /\ hours \in Budgets

NextTrain == Next \/ Training

SpecTrain == InitTrain /\ [][NextTrain]_vars

\* one process in which main() may be entered again after it returned
InitInstall == InitSingle /\ hours = ShortBudget

NextInstall ==
    \/ Next
    \/ Training
    \/ \E p \in Procs : MainAgain(p)

SpecInstall == InitInstall /\ [][NextInstall]_vars

\* a data-parallel run of several processes with a well-formed command line,
\* from the entry of main() through training
InitDist ==
    /\ world \in 2 .. MaxProcs
    /\ gpu_count \in {1, 2}
    /\ task_type \in TaskTypeChoices
    /\ payload = "valid"
    /\ hours = ShortBudget
    /\ file_format = HF
    /\ dataset_type = DatasetTypeOf(task_type, DefaultRewards)
    /\ tokenizer = DefaultTokenizer
    /\ template = DefaultTemplate
    /\ \E preinit \in BOOLEAN : InitState(preinit)

\* every process constructs one training loop, with no callbacks of the caller
ConstructOnce(p) == trainers[p] = <<>> /\ Construct(p, 0)

NextDist ==
    \/ Next
    \/ \E p \in Procs : ConstructOnce(p)
    \/ \E eval_now \in BOOLEAN : Boundary(1, eval_now)
    \/ \E p \in Procs : DoCliReturn(p)
    \/ \E d \in Durations : Tick(d)

SpecDist == InitDist /\ [][NextDist]_vars

\* one process with a well-formed command line, over the dataset types,
\* tokenizers, base templates and file formats create_config may meet
InitConfig ==
    /\ world = 1
    /\ gpu_count \in {1, 2}
    /\ task_type \in TaskTypeChoices
    /\ payload = "valid"
    /\ hours = ShortBudget
    /\ file_format \in FileFormatChoices
    /\ \E rfs \in RewardLists : dataset_type = DatasetTypeOf(task_type, rfs)
    /\ tokenizer \in Tokenizers
    /\ template \in Templates
    /\ InitState(FALSE)

SpecConfig == InitConfig /\ [][Next]_vars

----------------------------------------------------------------------------
(* Properties *)

Margin == Minutes(save_before_remaining_time)

\* what the deadline callbacks returned at the step boundary just handled
LastResults ==
    IF last.valid
    THEN {r \in UNION {{last.results[p][j] : j \in 1 .. Len(last.results[p])} :
                          p \in Procs} : r.supervisor}
    ELSE {}

AllCallbacks ==
    UNION {UNION {{trainers[p][i][j] : j \in 1 .. Len(trainers[p][i])} :
                     i \in 1 .. Len(trainers[p])} : p \in Procs}

Supervisors == {cb \in AllCallbacks : IsSupervisor(cb)}

\* how often the callback of result r had returned forceFinalEvalAndSave before
\* the boundary just handled
FiredBefore(r) == IF r.decision = forceFinalEvalAndSave THEN r.fired - 1 ELSE r.fired

\* C1, as claimed: with Deadline = clock read + budget, a callback returns
\* forceFinalEvalAndSave at the first boundary at or after Deadline - margin and
\* at no boundary strictly before it.
C1_AsClaimed ==
    \A r \in LastResults :
        /\ r.decision = forceFinalEvalAndSave => now >= r.run_start + r.budget - Margin
        /\ (r.was_pending /\ now >= r.run_start + r.budget - Margin)
               => r.decision = forceFinalEvalAndSave

\* C1: end_time keeps whole seconds only, so the trigger threshold is
\* (clock read + budget, cut to the whole second) - margin. A callback returns
\* forceFinalEvalAndSave at the first boundary at or after that threshold and at
\* none before it; the threshold lies less than one second before clock read +
\* budget - margin. With a budget of 2 hours and boundaries every 10 minutes
\* from the clock read, boundary 12 returns it and boundaries 1 to 11 do not.
C1_FirstBoundaryPastTrigger ==
    \A r \in LastResults :
        LET exact == r.run_start + r.budget - Margin
            cut == exact - ((r.run_start + r.budget) % TicksPerSecond)
        IN  /\ r.decision = forceFinalEvalAndSave <=> (r.was_pending /\ now >= cut)
            /\ r.decision = forceFinalEvalAndSave => now > exact - Seconds(1)
            /\ (r.was_pending /\ now >= exact) => r.decision = forceFinalEvalAndSave
            /\ r.budget = Hours(2) =>
                 \A k \in 1 .. 12 :
                     now = r.run_start + k * Minutes(10) =>
                         /\ k < 12 => r.decision # forceFinalEvalAndSave
                         /\ (k = 12 /\ r.was_pending) => r.decision = forceFinalEvalAndSave

\* C1 witness: budget 2 hours, the boundary 120 minutes after the clock read
\* returned forceFinalEvalAndSave
C1_Witness ==
    \E r \in LastResults :
        /\ r.budget = Hours(2)
        /\ now = r.run_start + 12 * Minutes(10)
        /\ r.decision = forceFinalEvalAndSave

C3_FinalizedForever ==
    /\ \A cb \in Supervisors : cb.fired >= 1 => cb.handler.state = "finalized"
    /\ \A r \in LastResults : FiredBefore(r) >= 1 => r.decision = continueNormally

\* C3 witness: a boundary with the evaluate-now flag set, reached after the
\* callback had returned forceFinalEvalAndSave
C3_Witness ==
    /\ last.valid
    /\ last.eval_now
    /\ \E r \in LastResults : FiredBefore(r) = 1 /\ r.decision = continueNormally

\* C6, as claimed: every constructed training loop holds exactly one deadline
\* callback besides the callbacks its caller supplied, however often the
\* interception was installed.
C6_AsClaimed ==
    \A p \in Procs : \A i \in 1 .. Len(trainers[p]) :
        Cardinality({j \in 1 .. Len(trainers[p][i]) :
                        IsSupervisor(trainers[p][i][j])}) = 1

\* C4, as claimed: at every step boundary all processes of the run return the
\* same decisions.
C4_AsClaimed ==
    last.valid =>
        \A p, q \in Procs :
            \A j \in 1 .. Len(last.results[p]) :
                (last.results[p][j].supervisor /\ j <= Len(last.results[q]))
                    => last.results[q][j].decision = last.results[p][j].decision

BadInput == payload = "malformed" \/ task_type \notin TaskTypeChoices

\* C5, as claimed: with a malformed dataset-type payload or an unsupported task
\* type nothing persistent is ever created, no process enters the distributed
\* bootstrap or the training loop, and every process that ends, ends non-zero.
C5_AsClaimed ==
    BadInput =>
        /\ \A o \in Objects : ~Exists(o)
        /\ arrived = {}
        /\ \A p \in Procs :
               /\ pc[p] \notin {"barrier", "clock", "install", "do_cli", "training", "done"}
               /\ pc[p] = "exited" => exit_code[p] > 0

\* C7, as claimed: nothing persistent is created by a process other than main,
\* the process of local rank 0.
C7_AsClaimed == \A o \in Objects : Exists(o) => fsys[o] = 0

\* C7: the shared source, data and config directories, the adapted dataset, the
\* dataset copies, the log directory, the reward-function module and the
\* configuration document are created by the main process only; the submission
\* directory and the working output directory are created by whichever process
\* reaches lines 207-212 first.
C7_MainOnlyBehindGuard ==
    \A o \in Objects \ RunDirs : Exists(o) => fsys[o] = 0

\* C7 witness: a run of several processes in which main wrote the
\* configuration document and another process created the submission directory
C7_Witness ==
    /\ world > 1
    /\ fsys["config_doc"] = 0
    /\ fsys["submission_dir"] > 0

\* C10, as claimed: no process hands config_path to do_cli before the
\* configuration document has been persisted.
C10_AsClaimed == \A p \in Procs : handoff[p] # "missing"

\* C8: for the reward-optimization variant with N (source, weight) pairs the
\* persisted document lists N reward-function references and N weights; the
\* i-th reference names the function generated from the i-th source and the
\* i-th weight is the i-th pair's weight.
C8_RewardListsAligned ==
    (Exists("config_doc") /\ dataset_type.kind = GrpoTask) =>
        LET pairs == dataset_type.reward_functions
        IN  /\ Len(config.reward_funcs) = Len(pairs)
            /\ Len(config.reward_weights) = Len(pairs)
            /\ \A i \in 1 .. Len(pairs) :
                   /\ config.reward_funcs[i].func.index = i
                   /\ config.reward_funcs[i].func.source = pairs[i].reward_func
                   /\ config.reward_weights[i] = pairs[i].reward_weight

\* C8 witness: a document persisted for two pairs that differ in source and
\* in weight
C8_Witness ==
    /\ Exists("config_doc")
    /\ dataset_type.kind = GrpoTask
    /\ Len(dataset_type.reward_functions) = 2
    /\ dataset_type.reward_functions[1].reward_func # dataset_type.reward_functions[2].reward_func
    /\ dataset_type.reward_functions[1].reward_weight # dataset_type.reward_functions[2].reward_weight
    /\ Len(config.reward_weights) = 2

HasEos == tokenizer.eos_token_id # None
HasPad == tokenizer.pad_token_id # None

\* C9, as claimed: with an eos token and no pad token the document sets the
\* pad token to the eos token; with both, the document holds no pad-token
\* override, whatever the base template.
C9_AsClaimed ==
    Exists("config_doc") =>
        /\ (HasEos /\ ~HasPad) => config.special_tokens = tokenizer.eos_token
        /\ (HasEos /\ HasPad) => config.special_tokens = None

\* C9: with an eos token and no pad token the document sets the pad token to
\* the eos token; with both, create_config adds no override of its own: the
\* document keeps the special_tokens entry of the base template, and holds a
\* pad-token override exactly when the template does.
C9_PadTokenOverride ==
    Exists("config_doc") =>
        /\ (HasEos /\ ~HasPad) => config.special_tokens = tokenizer.eos_token
        /\ (HasEos /\ HasPad) => config.special_tokens = template.special_tokens

\* C9 witness: both tokens present, a template with a pad-token entry of its
\* own, and the document persisted with that entry
C9_Witness ==
    /\ Exists("config_doc")
    /\ HasEos
    /\ HasPad
    /\ template.special_tokens # None
    /\ config.special_tokens = template.special_tokens

====
